---- MODULE Spec2Model ----
(***************************************************************************)
(* Model of isengard2's Runner (src/isengard2/_runner.py): the incremental *)
(* execution engine that walks the rule graph from a requested target,     *)
(* decides which rules must be rebuilt, runs them and records target       *)
(* fingerprints in the build cache, plus the clean traversal.              *)
(*                                                                         *)
(* One invocation of run / clean is one action: the recursive closures     *)
(* _run and _clean are recursive operators over an invocation context that *)
(* carries the database, the targets' state, the per-invocation caches,    *)
(* the raised exception (if any) and a log of what the invocation did.     *)
(***************************************************************************)
EXTENDS Integers, Sequences, FiniteSets, TLC

\* ------------------------------------------------------------------ bounds
\* A target's content is Absent or one of 1..MaxVal.
MaxVal == 1
\* A configuration value is one of 0..MaxCfg.
MaxCfg == 1
\* Depth of nested _run calls the interpreter allows before RecursionError.
RecursionLimit == 4
\* Invocations of run, edits of source files and changes of the
\* configuration explored in one behaviour of Spec.
MaxRuns == 3
MaxEdits == 1
MaxConfigChanges == 2
\* Invocations of run and of clean explored in one behaviour of SpecAll.
AllRuns == 1
MaxCleans == 2
\* Invocations of run and edits of source files explored in one behaviour
\* of SpecDiamond.
DiamondRuns == 2
DiamondEdits == 1

\* ------------------------------------------------------------- vocabulary
Absent == 0
None == -1
Raises == -1
NoErr == "none"

Targets == {"s", "v", "a", "b", "c"}
\* Targets whose handler has ON_DISK_TARGET = True ("v" is a virtual target).
OnDisk == Targets \ {"v"}
Keys == {"dbg", "opt"}
\* sorted() order of the configuration keys
KeyOrder == <<"dbg", "opt">>
RuleIds == {"A", "B", "C"}

ResolvedRule(id, ins, outs, need) ==
    [id |-> id, resolved_inputs |-> ins, resolved_outputs |-> outs,
     needed_config |-> need]

\* The rule sets the engine is constructed with (insertion order of `rules`).
Chain ==
    << ResolvedRule("A", <<"s">>, <<"a">>, {}),
       ResolvedRule("B", <<"a">>, <<"b">>, {"opt"}) >>
Diamond ==
    << ResolvedRule("A", <<"s">>, <<"a">>, {}),
       ResolvedRule("B", <<"a", "s">>, <<"b">>, {"opt"}),
       ResolvedRule("C", <<"a", "b">>, <<"c">>, {}) >>
TwoOutputs ==
    << ResolvedRule("A", <<"s">>, <<"a", "b">>, {"opt"}),
       ResolvedRule("C", <<"b">>, <<"c">>, {}) >>
Cycle ==
    << ResolvedRule("A", <<"b">>, <<"a">>, {}),
       ResolvedRule("B", <<"a">>, <<"b">>, {}) >>
PrefixCycle ==
    << ResolvedRule("C", <<"s">>, <<"c">>, {}),
       ResolvedRule("A", <<"c", "b">>, <<"a">>, {}),
       ResolvedRule("B", <<"a">>, <<"b">>, {"opt"}) >>
UnknownInput ==
    << ResolvedRule("A", <<"s">>, <<"a">>, {}),
       ResolvedRule("B", <<"a", "v">>, <<"b">>, {}) >>
DuplicateOutput ==
    << ResolvedRule("A", <<"s">>, <<"a">>, {}),
       ResolvedRule("B", <<"s">>, <<"a", "b">>, {}) >>

RuleSets ==
    {Chain, Diamond, TwoOutputs, Cycle, PrefixCycle, UnknownInput,
     DuplicateOutput}

Configs == [Keys -> 0..MaxCfg]

VARIABLES
    rules,            \* Runner.rules, in insertion order
    target_to_rule,   \* Runner.target_to_rule
    phase,            \* "new" before Runner.__init__, "ready" after
    config,           \* Runner.config
    db,               \* the build cache: run fingerprint -> {target: fingerprint}
    disk,             \* content of every target
    newer,            \* history: producers whose body ran after the rule's own body
    decidedCfg,       \* history: needed configuration at each rule's last rebuild decision
    ranUnder,         \* history: needed configurations under which each rule's body completed
    last,             \* history: what the last invocation did, and the target of
                      \* the last successful run while only the configuration changed since
    quota             \* steps of each kind the behaviour may still take

vars == <<rules, target_to_rule, phase, config, db, disk, newer, decidedCfg, ranUnder, last, quota>>

\* ------------------------------------------------------------ rule graph
Range(seq) == {seq[i] : i \in DOMAIN seq}

IdsOf(rs) == {rs[i].id : i \in DOMAIN rs}

RuleOf(rid) == rules[CHOOSE i \in DOMAIN rules : rules[i].id = rid]

AllOutputs(rs) == UNION {Range(rs[i].resolved_outputs) : i \in DOMAIN rs}

\* {output: rule for rule in rules.values() for output in rule.resolved_outputs}
\* : a later rule overwrites the entry of an earlier one.
TargetToRule(rs) ==
    [t \in AllOutputs(rs) |->
        LET owners == {i \in DOMAIN rs : t \in Range(rs[i].resolved_outputs)}
            lastIx == CHOOSE i \in owners : \A j \in owners : j <= i
        IN  rs[lastIx].id]

HasDuplicateOutput(rs) ==
    \E i, j \in DOMAIN rs :
        i # j /\ Range(rs[i].resolved_outputs) \cap Range(rs[j].resolved_outputs) # {}

\* Rules producing an input of rule rid.
Producers(rid) ==
    {target_to_rule[t] : t \in Range(RuleOf(rid).resolved_inputs) \cap DOMAIN target_to_rule}

RECURSIVE ClosureFrom(_, _)
ClosureFrom(todo, seen) ==
    IF todo = {} THEN seen
    ELSE LET r == CHOOSE x \in todo : TRUE
             nxt == Producers(r) \ (seen \cup {r})
         IN  ClosureFrom((todo \ {r}) \cup nxt, seen \cup {r})

\* The rules reachable from rule rid (rid included).
Closure(rid) == ClosureFrom({rid}, {})

OnCycle(rid) == \E p \in Producers(rid) : rid \in Closure(p)

\* ------------------------------------------------------------- handlers
\* handler.compute_fingerprint(cooked): a digest of the target's content,
\* None when the target is missing.
compute_fingerprint(d, t) == IF d[t] = Absent THEN None ELSE d[t]

\* handler.need_rebuild(cooked, previous_fingerprint)
need_rebuild(d, t, previous_fingerprint) ==
    compute_fingerprint(d, t) # previous_fingerprint

\* Variant: the capability flag of the handler is not looked at.
ON_DISK_TARGET_Unchecked(t) == TRUE

\* input_handler.ON_DISK_TARGET, for the handler of target t
ON_DISK_TARGET(t) == t \in OnDisk

\* ------------------------------------------------------------- database
EmptyRecord == [t \in {} |-> None]

\* db.fetch_rule_previous_run(run_fingerprint): the stored {target: fingerprint}
\* (found = TRUE) or None (found = FALSE).
fetch_rule_previous_run(store, run_fingerprint) ==
    IF run_fingerprint \in DOMAIN store
    THEN [found |-> TRUE, record |-> store[run_fingerprint]]
    ELSE [found |-> FALSE, record |-> EmptyRecord]

\* db.set_rule_previous_run(run_fingerprint, target_fingerprints)
set_rule_previous_run(store, run_fingerprint, record) ==
    [f \in DOMAIN store \cup {run_fingerprint} |->
        IF f = run_fingerprint THEN record ELSE store[f]]

\* ------------------------------------------------------ run fingerprint
pickle_dumps(v) == <<"pickle", v>>

\* Variant: every key of the configuration is hashed, not only the needed ones.
_compute_run_fingerprint_AllKeys(rule, cfg) ==
    [id |-> rule.id, stream |-> [i \in DOMAIN KeyOrder |-> pickle_dumps(cfg[KeyOrder[i]])]]

\* Variant: only the rule's id is hashed.
_compute_run_fingerprint_IdOnly(rule, cfg) ==
    [id |-> rule.id, stream |-> << >>]

\* sha256(rule.id) updated with the pickle of config[k] for k in
\* sorted(rule.needed_config); the digest is kept as the hashed stream.
_compute_run_fingerprint(rule, cfg) ==
    LET ks == SelectSeq(KeyOrder, LAMBDA k : k \in rule.needed_config)
    IN  [id |-> rule.id, stream |-> [i \in DOMAIN ks |-> pickle_dumps(cfg[ks[i]])]]

\* ------------------------------------------------------------------ run
Put(f, k, v) == [x \in DOMAIN f \cup {k} |-> IF x = k THEN v ELSE f[x]]

\* dict.get with None as default, as the try/except KeyError blocks do
PreviousFingerprint(record, t) == IF t \in DOMAIN record THEN record[t] ELSE None

Emit(ctx, ev, x) == [ctx EXCEPT !.log = Append(@, <<ev, x>>)]

\* A producer's body ran: its consumers are older than it until they run.
BodyRan(nw, rid) ==
    [r \in DOMAIN nw |->
        IF r = rid THEN {}
        ELSE IF rid \in Producers(r) THEN nw[r] \cup {rid} ELSE nw[r]]

\* 3) Evaluate the outputs (one iteration per output, from index i on)
RECURSIVE EvaluateOutputs(_, _, _, _)
EvaluateOutputs(fr, rule, previous, i) ==
    IF i > Len(rule.resolved_outputs) THEN fr
    ELSE
        LET output_target == rule.resolved_outputs[i]
            output_previous_fingerprint == PreviousFingerprint(previous, output_target)
            cooked == Emit(fr.ctx, "cook", output_target)
            output_has_changed ==
                IF output_previous_fingerprint # None
                THEN need_rebuild(cooked.disk, output_target, output_previous_fingerprint)
                ELSE TRUE
        IN  EvaluateOutputs(
                [ctx |-> [cooked EXCEPT !.targets_eval_cache =
                                Put(@, output_target, output_has_changed)],
                 to_cache_targets |-> Append(fr.to_cache_targets, output_target),
                 rebuild_needed |-> fr.rebuild_needed \/ output_has_changed],
                rule, previous, i + 1)

\* Variant: the inputs without owning rule are not recorded.
TargetFingerprints_OutputsOnly(d, to_cache_targets) ==
    LET kept == {t \in Range(to_cache_targets) \cap DOMAIN target_to_rule :
                    compute_fingerprint(d, t) # None}
    IN  [t \in kept |-> compute_fingerprint(d, t)]

\* Variant: a fingerprint that is None is recorded like the others.
TargetFingerprints_KeepsNone(d, to_cache_targets) ==
    [t \in Range(to_cache_targets) |-> compute_fingerprint(d, t)]

\* 6) Update the build cache: the fingerprints that are not None
TargetFingerprints(d, to_cache_targets) ==
    LET kept == {t \in Range(to_cache_targets) : compute_fingerprint(d, t) # None}
    IN  [t \in kept |-> compute_fingerprint(d, t)]

\* rule.run(outputs_cooked, inputs_cooked, self.config): the body writes
\* content `made` to each of the rule's outputs.
RuleBody(d, rule, made) ==
    [t \in DOMAIN d |-> IF t \in Range(rule.resolved_outputs) THEN made ELSE d[t]]

\* Variant: the verdict of the rule depended on is dropped.
Propagate_Dropped(rebuild_needed, sub) == rebuild_needed

\* rebuild_needed |= _run(subrule)
Propagate(rebuild_needed, sub) == rebuild_needed \/ (sub.err = NoErr /\ sub.ret)

\* Variant: the inputs are taken from the last declared to the first.
NextInput_LastFirst(rule, i) ==
    rule.resolved_inputs[Len(rule.resolved_inputs) + 1 - i]

\* for input_target in rule.resolved_inputs: the i-th input visited
NextInput(rule, i) == rule.resolved_inputs[i]

\* Variant: a rule is evaluated again each time it is reached.
Evaluated_Never(ctx, rid) == FALSE

\* try: return already_evaluated[rule]
Evaluated(ctx, rid) == rid \in DOMAIN ctx.already_evaluated

\* Variant: the record is written before the body is invoked.
RunBody_CommitsFirst(decided, rule, run_fingerprint, to_cache_targets, made) ==
    LET early == [Emit(decided, "commit", rule.id) EXCEPT
                     !.db = set_rule_previous_run(@, run_fingerprint,
                                TargetFingerprints(decided.disk, to_cache_targets))]
    IN  IF made = Raises
        THEN [Emit(early, "body", rule.id) EXCEPT !.err = "RunError"]
        ELSE [Emit(early, "body", rule.id) EXCEPT
                 !.disk = RuleBody(@, rule, made),
                 !.newer = BodyRan(@, rule.id),
                 !.ret = TRUE]

\* 5) Actually run the rule, 6) update the build cache.  made is what the
\* body does: Raises, or the content it gives the rule's outputs.
RunBody(decided, rule, run_fingerprint, to_cache_targets, made) ==
    IF made = Raises
    THEN [Emit(decided, "body", rule.id) EXCEPT !.err = "RunError"]
    ELSE
        LET built == RuleBody(decided.disk, rule, made)
            record == TargetFingerprints(built, to_cache_targets)
            ran == Emit(Emit(decided, "body", rule.id), "commit", rule.id)
        IN  [ran EXCEPT
                !.disk = built,
                !.newer = BodyRan(@, rule.id),
                !.targets_eval_cache =
                    [t \in DOMAIN @ |->
                        IF t \in Range(to_cache_targets) THEN TRUE ELSE @[t]],
                !.db = set_rule_previous_run(@, run_fingerprint, record),
                !.ret = TRUE]

RECURSIVE _run(_, _, _, _, _)
RECURSIVE EvaluateInputs(_, _, _, _, _, _, _)

\* 2) Evaluate each input (one iteration per input, from index i on)
EvaluateInputs(fr, rule, previous, i, cfg, bodies, depth) ==
    IF fr.ctx.err # NoErr \/ i > Len(rule.resolved_inputs) THEN fr
    ELSE
        LET input_target == NextInput(rule, i) IN
        IF input_target \in DOMAIN target_to_rule
        THEN \* Go recursive on the rule we depend on
            LET subrule == target_to_rule[input_target]
                called == [fr.ctx EXCEPT !.log = Append(@, <<"call", subrule, rule.id>>)]
                sub == _run(called, subrule, cfg, bodies, depth + 1)
            IN  EvaluateInputs(
                    [fr EXCEPT !.ctx = sub,
                               !.rebuild_needed = Propagate(@, sub)],
                    rule, previous, i + 1, cfg, bodies, depth)
        ELSE
            LET input_previous_fingerprint == PreviousFingerprint(previous, input_target)
                cooked == Emit(fr.ctx, "cook", input_target)
            IN  IF ~ON_DISK_TARGET(input_target)
                THEN [fr EXCEPT !.ctx = [cooked EXCEPT !.err = "UnknownTarget"]]
                ELSE
                    LET input_has_changed ==
                            IF input_previous_fingerprint # None
                            THEN need_rebuild(cooked.disk, input_target,
                                              input_previous_fingerprint)
                            ELSE TRUE
                    IN  EvaluateInputs(
                            [ctx |-> [cooked EXCEPT !.targets_eval_cache =
                                            Put(@, input_target, input_has_changed)],
                             to_cache_targets |-> Append(fr.to_cache_targets, input_target),
                             rebuild_needed |-> fr.rebuild_needed \/ input_has_changed],
                            rule, previous, i + 1, cfg, bodies, depth)

\* The closure _run(rule) of run_rule.  bodies[rid] is what the body of rule
\* rid does when invoked: Raises, or the content it gives its outputs.
_run(ctx, rid, cfg, bodies, depth) ==
    IF ctx.err # NoErr THEN ctx
    ELSE IF depth > RecursionLimit THEN [ctx EXCEPT !.err = "RecursionError"]
    ELSE IF Evaluated(ctx, rid)
    THEN \* 0) Fast track if the rule has already been evaluated
        LET verdict == ctx.already_evaluated[rid]
        IN  [Emit(Emit(ctx, "fast", rid),
                  IF verdict THEN "fast_true" ELSE "fast_false", rid)
                EXCEPT !.ret = verdict]
    ELSE
        LET rule == RuleOf(rid)
            \* 1) Retrieve previous run from DB
            run_fingerprint == _compute_run_fingerprint(rule, cfg)
            fetched == fetch_rule_previous_run(ctx.db, run_fingerprint)
            previous == fetched.record
            entered == Emit(ctx, IF fetched.found THEN "hit" ELSE "miss", rid)
            ins == EvaluateInputs(
                       [ctx |-> entered, to_cache_targets |-> << >>,
                        rebuild_needed |-> ~fetched.found],
                       rule, previous, 1, cfg, bodies, depth)
        IN  IF ins.ctx.err # NoErr THEN ins.ctx
            ELSE
                LET outs == EvaluateOutputs(ins, rule, previous, 1)
                    rebuild_needed == outs.rebuild_needed
                    decided == [outs.ctx EXCEPT !.already_evaluated =
                                    Put(@, rid, rebuild_needed)]
                IN  IF ~rebuild_needed
                    THEN [Emit(decided, "skip", rid) EXCEPT !.ret = FALSE]
                    ELSE IF ~(Range(rule.resolved_inputs)
                                  \subseteq DOMAIN decided.targets_eval_cache)
                    THEN \* inputs_cooked reads targets_eval_cache[t] of every input
                        [decided EXCEPT !.err = "KeyError"]
                    ELSE RunBody(decided, rule, run_fingerprint,
                                 outs.to_cache_targets, bodies[rid])

NewContext(store, d) ==
    [db |-> store, disk |-> d, newer |-> newer,
     already_evaluated |-> [r \in {} |-> FALSE],
     targets_eval_cache |-> [t \in {} |-> FALSE],
     err |-> NoErr, ret |-> FALSE, log |-> << >>]

\* run_rule(rule): a fresh pair of caches, then _run(rule) in a DB session
run_rule(store, d, rid, cfg, bodies) ==
    _run(NewContext(store, d), rid, cfg, bodies, 1)

\* run(target), from database `store` and target contents `d`
run(store, d, target, cfg, bodies) ==
    IF target \notin DOMAIN target_to_rule
    THEN [NewContext(store, d) EXCEPT !.err = "UnknownTarget"]
    ELSE run_rule(store, d, target_to_rule[target], cfg, bodies)

Outcome(ctx) ==
    IF ctx.err # NoErr THEN ctx.err ELSE IF ctx.ret THEN "true" ELSE "false"

CleanOutcome(ctx) == IF ctx.err # NoErr THEN ctx.err ELSE "done"

Logged(log, ev) == {log[i][2] : i \in {j \in DOMAIN log : log[j][1] = ev}}

\* ---------------------------------------------------------------- clean
\* handler.clean(cooked): remove the target if it exists
handler_clean(d, t) == [d EXCEPT ![t] = Absent]

\* Variant: removing a target that is already missing fails.
CleanOutput_FailsOnMissing(ctx, target, stuck) ==
    LET cooked == Emit(Emit(ctx, "cook", target), "clean", target)
    IN  IF target \in stuck \/ cooked.disk[target] = Absent
        THEN [cooked EXCEPT !.err = "RunError"]
        ELSE [cooked EXCEPT !.disk = handler_clean(@, target)]

\* One output of the rule being cleaned: cook it, then handler.clean(cooked),
\* whose failure is raised as IsengardRunError.  stuck are the targets whose
\* removal fails as long as they exist.
CleanOutput(ctx, target, stuck) ==
    LET cooked == Emit(Emit(ctx, "cook", target), "clean", target)
    IN  IF target \in stuck /\ cooked.disk[target] # Absent
        THEN [cooked EXCEPT !.err = "RunError"]
        ELSE [cooked EXCEPT !.disk = handler_clean(@, target)]

\* for target in rule.resolved_outputs (from index i on)
RECURSIVE CleanOutputs(_, _, _, _)
CleanOutputs(ctx, rule, i, stuck) ==
    IF ctx.err # NoErr \/ i > Len(rule.resolved_outputs) THEN ctx
    ELSE CleanOutputs(CleanOutput(ctx, rule.resolved_outputs[i], stuck),
                      rule, i + 1, stuck)

\* Variant: the source file is cleaned like an output.
KeepPrerequisite_Removes(ctx, input_target) ==
    [Emit(ctx, "clean", input_target) EXCEPT !.disk = handler_clean(@, input_target)]

\* An input without owning rule whose handler is ON_DISK_TARGET: a source
\* file, which the traversal leaves alone.
KeepPrerequisite(ctx, input_target) == ctx

\* Variant: the record of the rule being cleaned is taken out of the store.
PreviousRunForClean_Consumed(ctx, rule) ==
    LET run_fingerprint == _compute_run_fingerprint(rule, config)
    IN  [ctx |-> [ctx EXCEPT !.db = [f \in DOMAIN @ \ {run_fingerprint} |-> @[f]]],
         previous |-> fetch_rule_previous_run(ctx.db, run_fingerprint).record]

\* targets_previous_fingerprint = db.fetch_rule_previous_run(run_fingerprint) or {}
\* : the record is only a hint given to cook_target.
PreviousRunForClean(ctx, rule) ==
    LET run_fingerprint == _compute_run_fingerprint(rule, config)
    IN  [ctx |-> ctx,
         previous |-> fetch_rule_previous_run(ctx.db, run_fingerprint).record]

\* Variant: a rule that was already cleaned is taken for a recursion.
RecursionDetected_AlreadyCleaned(ctx, sub_rule, sub_parent_rules) ==
    sub_rule \in ctx.already_cleaned

\* if sub_rule in sub_parent_rules
RecursionDetected(ctx, sub_rule, sub_parent_rules) ==
    sub_rule \in Range(sub_parent_rules)

RECURSIVE _clean(_, _, _, _)
RECURSIVE CleanInputs(_, _, _, _, _)

\* for input_target in rule.resolved_inputs (from index i on)
CleanInputs(ctx, rule, i, parent_rules, stuck) ==
    IF ctx.err # NoErr \/ i > Len(rule.resolved_inputs) THEN ctx
    ELSE
        LET input_target == rule.resolved_inputs[i]
            sub_parent_rules == Append(parent_rules, rule.id)
        IN  IF input_target \notin DOMAIN target_to_rule
            THEN IF ~ON_DISK_TARGET(input_target)
                 THEN [ctx EXCEPT !.err = "UnknownTarget"]
                 ELSE CleanInputs(KeepPrerequisite(ctx, input_target),
                                  rule, i + 1, parent_rules, stuck)
            ELSE
                LET sub_rule == target_to_rule[input_target] IN
                IF RecursionDetected(ctx, sub_rule, sub_parent_rules)
                THEN [ctx EXCEPT !.err = "ConsistencyError"]
                ELSE CleanInputs(_clean(ctx, sub_rule, sub_parent_rules, stuck),
                                 rule, i + 1, parent_rules, stuck)

\* The closure _clean(rule, parent_rules) of clean
_clean(ctx, rid, parent_rules, stuck) ==
    IF ctx.err # NoErr \/ rid \in ctx.already_cleaned THEN ctx
    ELSE
        LET entered == [Emit(ctx, "enter", rid) EXCEPT
                            !.already_cleaned = @ \cup {rid}]
            rule == RuleOf(rid)
            fetched == PreviousRunForClean(entered, rule)
        IN  CleanInputs(CleanOutputs(fetched.ctx, rule, 1, stuck),
                        rule, 1, parent_rules, stuck)

NewCleanContext(store, d) ==
    [db |-> store, disk |-> d, already_cleaned |-> {},
     err |-> NoErr, ret |-> FALSE, log |-> << >>]

\* clean(target), from database `store` and target contents `d`
clean(store, d, target, stuck) ==
    IF target \notin DOMAIN target_to_rule
    THEN [NewCleanContext(store, d) EXCEPT !.err = "UnknownTarget"]
    ELSE _clean(NewCleanContext(store, d), target_to_rule[target], << >>, stuck)

\* -------------------------------------------------------------- actions
NeededKeys == UNION {rules[i].needed_config : i \in DOMAIN rules}

\* The configurations that agree with cfg on every key some rule needs.
SameNeeded(cfg) == {c \in Configs : \A k \in NeededKeys : c[k] = cfg[k]}

\* Unowned on-disk targets that some rule reads.
Sources ==
    (UNION {Range(rules[i].resolved_inputs) : i \in DOMAIN rules} \cap OnDisk)
        \ DOMAIN target_to_rule

\* What the bodies of the rules do in a run of target t (rules the run
\* cannot reach are left out of the choice).
BodyChoices(t) ==
    LET reach == IF t \in DOMAIN target_to_rule
                 THEN Closure(target_to_rule[t]) ELSE {}
    IN  {[r \in IdsOf(rules) |-> v] : v \in 1..MaxVal}
        \cup {[r \in IdsOf(rules) |-> IF r = f THEN x ELSE v] :
                 v \in 1..MaxVal, f \in reach, x \in {Raises, Absent}}

\* What an observer sees of an invocation: its outcome, the bodies it
\* invoked and the run fingerprints it looked up.
Observation(outcome, log, cfg) ==
    [outcome |-> outcome,
     log |-> log,
     fingerprints |-> {_compute_run_fingerprint(RuleOf(r), cfg) :
                          r \in Logged(log, "hit") \cup Logged(log, "miss")}]

Requests == DOMAIN target_to_rule \cup {"v"}

StuckChoices == {{}} \cup {{t} : t \in AllOutputs(rules)}

\* The values rule rid reads from configuration cfg.
NeededConfig(rid, cfg) == [k \in RuleOf(rid).needed_config |-> cfg[k]]

Idle(op) ==
    [op |-> op, target |-> "", outcome |-> NoErr, log |-> << >>,
     preDb |-> db, preDisk |-> disk, repeat |-> FALSE, prevOutcome |-> NoErr,
     prevChanged |-> FALSE, stuck |-> {}, bodies |-> << >>, cfgChanged |-> {},
     preRanUnder |-> ranUnder, settled |-> "", resumed |-> FALSE]

Start(rs, q) ==
    /\ rules \in rs
    /\ target_to_rule = [t \in {} |-> ""]
    /\ phase = "new"
    /\ config = [k \in Keys |-> 0]
    /\ db = [f \in {} |-> EmptyRecord]
    /\ disk = [t \in Targets |-> IF t = "s" THEN 1 ELSE Absent]
    /\ newer = [r \in IdsOf(rules) |-> {}]
    /\ decidedCfg = [r \in IdsOf(rules) |-> {}]
    /\ ranUnder = [r \in IdsOf(rules) |-> {}]
    /\ last = Idle("init")
    /\ quota = q

Init ==
    Start({Chain, TwoOutputs},
          [runs |-> MaxRuns, cleans |-> 0, edits |-> MaxEdits,
           configs |-> MaxConfigChanges])

\* Runner.__init__
Construct ==
    /\ phase = "new"
    /\ target_to_rule' = TargetToRule(rules)
    /\ phase' = "ready"
    /\ last' = Idle("construct")
    /\ UNCHANGED <<rules, config, db, disk, newer, decidedCfg, ranUnder, quota>>

\* Runner.run(target)
Run(t, bodies) ==
    /\ phase = "ready"
    /\ quota.runs > 0
    /\ quota' = [quota EXCEPT !.runs = @ - 1]
    /\ LET res == run(db, disk, t, config, bodies)
           decided == DOMAIN res.already_evaluated
           current == [r \in decided |-> NeededConfig(r, config)]
       IN  /\ db' = res.db
           /\ disk' = res.disk
           /\ newer' = res.newer
           /\ decidedCfg' =
                [r \in DOMAIN decidedCfg |->
                    IF r \in decided THEN {current[r]} ELSE decidedCfg[r]]
           /\ ranUnder' =
                [r \in DOMAIN ranUnder |->
                    IF r \in Logged(res.log, "commit")
                    THEN ranUnder[r] \cup {current[r]} ELSE ranUnder[r]]
           /\ last' =
                [op |-> "run", target |-> t, outcome |-> Outcome(res),
                 log |-> res.log, preDb |-> db, preDisk |-> disk,
                 repeat |-> /\ last.op = "run"
                            /\ last.target = t
                            /\ last.outcome \in {"true", "false"},
                 prevOutcome |-> last.outcome,
                 prevChanged |-> last.preDisk # disk,
                 stuck |-> {}, bodies |-> bodies,
                 cfgChanged |->
                    {r \in decided : decidedCfg[r] \notin {{}, {current[r]}}},
                 preRanUnder |-> ranUnder,
                 settled |-> IF Outcome(res) \in {"true", "false"} THEN t ELSE "",
                 resumed |-> last.settled = t /\ last.op = "config"]
    /\ UNCHANGED <<rules, target_to_rule, phase, config>>

\* Runner.clean(target)
Clean(t, stuck) ==
    /\ phase = "ready"
    /\ quota.cleans > 0
    /\ quota' = [quota EXCEPT !.cleans = @ - 1]
    /\ LET res == clean(db, disk, t, stuck)
       IN  /\ db' = res.db
           /\ disk' = res.disk
           /\ last' =
                [op |-> "clean", target |-> t, outcome |-> CleanOutcome(res),
                 log |-> res.log, preDb |-> db, preDisk |-> disk,
                 repeat |-> /\ last.op = "clean"
                            /\ last.target = t
                            /\ last.stuck = stuck,
                 prevOutcome |-> last.outcome,
                 prevChanged |-> last.preDisk # disk,
                 stuck |-> stuck, bodies |-> << >>,
                 cfgChanged |-> {}, preRanUnder |-> ranUnder,
                 settled |-> "", resumed |-> FALSE]
    /\ UNCHANGED <<rules, target_to_rule, phase, config, newer, decidedCfg, ranUnder>>

\* The user edits, creates or removes a source file between invocations.
ModifySource(t, v) ==
    /\ phase = "ready"
    /\ t \in Sources
    /\ quota.edits > 0
    /\ quota' = [quota EXCEPT !.edits = @ - 1]
    /\ v # disk[t]
    /\ disk' = [disk EXCEPT ![t] = v]
    /\ last' = Idle("modify")
    /\ UNCHANGED <<rules, target_to_rule, phase, config, db, newer, decidedCfg, ranUnder>>

\* The next invocation is made with another value of configuration key k.
SetConfig(k, v) ==
    /\ phase = "ready"
    /\ k \in NeededKeys
    /\ v # config[k]
    /\ quota.configs > 0
    /\ quota' = [quota EXCEPT !.configs = @ - 1]
    /\ config' = [config EXCEPT ![k] = v]
    /\ last' = [Idle("config") EXCEPT !.settled = last.settled]
    /\ UNCHANGED <<rules, target_to_rule, phase, db, disk, newer, decidedCfg, ranUnder>>

DoRun == \E t \in Requests : \E bodies \in BodyChoices(t) : Run(t, bodies)
DoClean == \E t \in Requests : \E stuck \in StuckChoices : Clean(t, stuck)
DoModifySource == \E t \in Targets : \E v \in 0..MaxVal : ModifySource(t, v)
DoSetConfig == \E k \in Keys : \E v \in 0..MaxCfg : SetConfig(k, v)

\* Builds of the buildable rule sets: run invocations with source edits
\* and configuration changes in between.
Next == Construct \/ DoRun \/ DoModifySource \/ DoSetConfig

Spec == Init /\ [][Next]_vars

\* Every rule set, the malformed ones included: run and clean invocations.
InitAll ==
    Start(RuleSets, [runs |-> AllRuns, cleans |-> MaxCleans, edits |-> 0, configs |-> 0])

NextAll == Construct \/ DoRun \/ DoClean

SpecAll == InitAll /\ [][NextAll]_vars

\* The diamond: run invocations with source edits in between.
InitDiamond ==
    Start({Diamond}, [runs |-> DiamondRuns, cleans |-> 0, edits |-> DiamondEdits,
                      configs |-> 0])

NextDiamond == Construct \/ DoRun \/ DoModifySource

SpecDiamond == InitDiamond /\ [][NextDiamond]_vars

\* --------------------------------------------------------------- claims
Returned == last.op = "run" /\ last.outcome \in {"true", "false"}

BodiesInvoked == Logged(last.log, "body")

\* The rules reachable from the owning rule of the last requested target.
Reached ==
    IF last.target \in DOMAIN target_to_rule
    THEN Closure(target_to_rule[last.target]) ELSE {}

\* The targets whose fingerprints rule rid records: its outputs and its
\* inputs without owning rule.
Recorded(rid) ==
    Range(RuleOf(rid).resolved_outputs)
        \cup (Range(RuleOf(rid).resolved_inputs) \ DOMAIN target_to_rule)

AllPresent(d) == \A r \in Reached : \A t \in Recorded(r) : d[t] # Absent

\* C1 (as stated): a run(t) that immediately follows a successful run(t)
\* returns false and invokes no rule body.
C1_Original ==
    (last.op = "run" /\ last.repeat) =>
        (last.outcome = "false" /\ BodiesInvoked = {})

\* C1 (amended): a run(t) that immediately follows a successful run(t) returns
\* false and invokes no rule body, provided that after the first run every
\* output and every source file of the rules reachable from t exists.
C1_RepeatedRunIsNoOp ==
    (last.op = "run" /\ last.repeat /\ AllPresent(last.preDisk)) =>
        (last.outcome = "false" /\ BodiesInvoked = {})

C1_Witness ==
    /\ last.op = "run" /\ last.repeat /\ AllPresent(last.preDisk)
    /\ last.prevOutcome = "true"
    /\ last.outcome = "false"

\* C2: whenever run(t) returns without error, no rule reachable from t has a
\* producer of one of its inputs whose body ran after the rule's own body.
C2_ReachableRulesUpToDate ==
    Returned => \A r \in Reached : newer[r] = {}

\* C3: run(t) returns false iff it invoked no rule body, and the bodies it
\* invokes are those of rules reachable from t's owning rule.
C3_FalseIffNothingRebuilt ==
    Returned =>
        /\ (last.outcome = "false") <=> (BodiesInvoked = {})
        /\ BodiesInvoked \subseteq Reached

\* run(t) returned true although the record of t's owning rule was found:
\* the rebuild came from a rule it depends on.
C3_Witness ==
    /\ Returned /\ last.outcome = "true"
    /\ target_to_rule[last.target] \in Logged(last.log, "hit")
    /\ Cardinality(BodiesInvoked) >= 2

\* C4: when a rule cycle is reachable from the owning rule of the requested
\* target, run(t) ends with ConsistencyError.
C4_CycleRaisesConsistencyError ==
    (last.op = "run" /\ \E r \in Reached : OnCycle(r)) =>
        last.outcome = "ConsistencyError"

\* C5: when a rule cycle is reachable from the owning rule of the requested
\* target, run(t) leaves the store as it was.
C5_CycleLeavesStoreUntouched ==
    (last.op = "run" /\ \E r \in Reached : OnCycle(r)) => db = last.preDb

\* C6 (as stated): a rule whose needed configuration differs from the one of
\* its previous rebuild decision has its body invoked by the run that reaches
\* its next rebuild decision.
C6_Original ==
    last.op = "run" => last.cfgChanged \subseteq BodiesInvoked

\* C6 (amended): a rule whose needed configuration changed to values under
\* which its body never completed has its body invoked by the run that
\* reaches its next rebuild decision.
C6_NewConfigForcesRebuild ==
    last.op = "run" =>
        \A r \in last.cfgChanged :
            NeededConfig(r, config) \notin last.preRanUnder[r] => r \in BodiesInvoked

C6_Witness ==
    /\ last.op = "run"
    /\ \E r \in last.cfgChanged :
        /\ NeededConfig(r, config) \notin last.preRanUnder[r]
        /\ r \in Logged(last.log, "commit")
        \* its targets were as the previous configuration's record has them
        /\ \E c \in Configs :
            LET f == _compute_run_fingerprint(RuleOf(r), c)
            IN  /\ f \in DOMAIN last.preDb
                /\ \A t \in Recorded(r) :
                       /\ t \in DOMAIN last.preDb[f]
                       /\ last.preDb[f][t] = compute_fingerprint(last.preDisk, t)

\* C7: the last run behaves the same under every configuration that differs
\* from the actual one only in keys no rule needs: same run fingerprints,
\* same steps (rule bodies included), same outcome.
C7_UnneededKeysIgnored ==
    last.op = "run" =>
        \A c \in SameNeeded(config) :
            LET twin == run(last.preDb, last.preDisk, last.target, c, last.bodies)
            IN  Observation(Outcome(twin), twin.log, c)
                    = Observation(last.outcome, last.log, config)

\* A repeated run that rebuilt nothing, with a key no rule needs to vary.
C7_Witness ==
    /\ last.op = "run" /\ last.repeat /\ last.outcome = "false"
    /\ last.prevOutcome = "true"
    /\ \E c \in SameNeeded(config) : c # config

\* C8: a rule set in which two rules declare the same output is rejected when
\* the engine is constructed.
C8_DuplicateOutputRejected ==
    HasDuplicateOutput(rules) => phase # "ready"

\* C9: clean(t) invokes handler.clean only on outputs of rules, and every
\* target that no rule produces is after clean(t) as it was before.
C9_CleanSparesSources ==
    last.op = "clean" =>
        /\ Logged(last.log, "clean") \subseteq AllOutputs(rules)
        /\ \A t \in Targets \ AllOutputs(rules) : disk[t] = last.preDisk[t]

\* clean removed an output of a rule that reads an existing source file.
C9_Witness ==
    /\ last.op = "clean"
    /\ \E r \in Logged(last.log, "enter") :
        /\ \E t \in Range(RuleOf(r).resolved_outputs) :
               last.preDisk[t] # Absent /\ disk[t] = Absent
        /\ \E x \in Range(RuleOf(r).resolved_inputs) \cap Sources :
               disk[x] # Absent

\* C10: a clean(t) that immediately follows a clean(t) leaves every target as
\* the first left it and ends as the first did.
C10_CleanIdempotent ==
    (last.op = "clean" /\ last.repeat) =>
        (disk = last.preDisk /\ last.outcome = last.prevOutcome)

\* The second clean after a first one that removed targets.
C10_Witness ==
    /\ last.op = "clean" /\ last.repeat /\ last.prevChanged
    /\ last.outcome = "done"

\* Rule r has an input produced by rule s, directly or transitively.
DependsOn(r, s) == r # s /\ s \in Closure(r)

\* The record the last run found for rule r matched every target it records.
FoundUnchanged(r) ==
    LET f == _compute_run_fingerprint(RuleOf(r), config)
    IN  /\ f \in DOMAIN last.preDb
        /\ \A t \in Recorded(r) :
               /\ t \in DOMAIN last.preDb[f]
               /\ last.preDb[f][t] = compute_fingerprint(last.preDisk, t)

ConfigOnlyChanged ==
    last.op = "run" /\ last.resumed /\ last.cfgChanged # {}

\* Those rules and the rules that depend on them.
Affected ==
    {r \in IdsOf(rules) : \E b \in last.cfgChanged : b \in Closure(r)}

\* The store holds under rule r's run fingerprint what it held before the run.
RecordKept(r) ==
    LET f == _compute_run_fingerprint(RuleOf(r), config)
    IN  /\ (f \in DOMAIN db) <=> (f \in DOMAIN last.preDb)
        /\ f \in DOMAIN db => db[f] = last.preDb[f]

\* C12 (as stated): when only configuration keys changed after a successful
\* run(t), the next run(t) invokes the bodies of the rules needing a changed
\* key and of rules depending on them only, and the records of the other
\* reachable rules are unchanged.
C12_Original ==
    ConfigOnlyChanged =>
        /\ last.cfgChanged \subseteq BodiesInvoked
        /\ BodiesInvoked \subseteq Affected
        /\ \A r \in Reached \ Affected : RecordKept(r)

\* C12 (amended): the same, provided every output and source file of the
\* reachable rules existed after the first run; and the body of a rule needing
\* a changed key is invoked when it never completed under the new values.
C12_OnlyDependentsOfChangedKey ==
    (ConfigOnlyChanged /\ AllPresent(last.preDisk)) =>
        /\ \A r \in last.cfgChanged :
               NeededConfig(r, config) \notin last.preRanUnder[r] => r \in BodiesInvoked
        /\ BodiesInvoked \subseteq Affected
        /\ \A r \in Reached \ Affected : RecordKept(r)

\* The rule needing the changed key was rebuilt while a rule it depends on
\* was skipped and kept its record.
C12_Witness ==
    /\ ConfigOnlyChanged /\ AllPresent(last.preDisk)
    /\ last.outcome = "true"
    /\ \E b \in last.cfgChanged : \E a \in Producers(b) :
        /\ b \in Logged(last.log, "commit")
        /\ a \in Logged(last.log, "skip")
        /\ a \notin Affected
        /\ RecordKept(a)
        /\ _compute_run_fingerprint(RuleOf(a), config) \in DOMAIN db

\* The inputs of rule r that no rule produces and that are not on disk.
UnknownInputs(r) ==
    {t \in Range(RuleOf(r).resolved_inputs) \ DOMAIN target_to_rule : t \notin OnDisk}

\* Rule r was not run and the store holds no record of it.
NeverCommitted(r) ==
    /\ r \notin BodiesInvoked
    /\ r \notin Logged(last.log, "commit")
    /\ _compute_run_fingerprint(RuleOf(r), config) \notin DOMAIN db

\* C13 (as stated): a run(t) that can reach a rule with an input that no rule
\* produces and that is not on disk ends with UnknownTarget, without invoking
\* the body of that rule or committing a record for it.
C13_Original ==
    last.op = "run" =>
        \A r \in Reached :
            UnknownInputs(r) # {} =>
                (last.outcome = "UnknownTarget" /\ NeverCommitted(r))

\* C13 (amended): such a run(t) ends with UnknownTarget unless a rule body
\* invoked before that input is evaluated raises, in which case it ends with
\* RunError; in both cases the body of the rule with the unknown input is not
\* invoked and no record is committed for it.
C13_UnknownInputRaisesUnknownTarget ==
    last.op = "run" =>
        \A r \in Reached :
            UnknownInputs(r) # {} =>
                /\ NeverCommitted(r)
                /\ IF \E x \in BodiesInvoked : last.bodies[x] = Raises
                   THEN last.outcome = "RunError"
                   ELSE last.outcome = "UnknownTarget"

\* The unknown input was reached after a rule the same rule depends on had
\* been run and committed.
C13_Witness ==
    /\ last.op = "run" /\ last.outcome = "UnknownTarget"
    /\ \E r \in Reached :
        /\ UnknownInputs(r) \cap Logged(last.log, "cook") # {}
        /\ Producers(r) \cap Logged(last.log, "commit") # {}
        /\ NeverCommitted(r)

\* The positions of the log of the last invocation where step ev of x is.
Steps(ev, x) ==
    {i \in DOMAIN last.log : last.log[i][1] = ev /\ last.log[i][2] = x}

Acyclic == \A r \in Reached : ~OnCycle(r)

\* The positions where the rebuild decision of rule r was computed.
Decisions(r) == Steps("hit", r) \cup Steps("miss", r)

\* C14: in one run(t) over an acyclic rule graph, the body of each rule is
\* invoked at most once, its rebuild decision is computed at most once, and
\* every later lookup of the rule returns the verdict of that decision.
C14_EachRuleEvaluatedOnce ==
    (last.op = "run" /\ Acyclic) =>
        \A r \in IdsOf(rules) :
            /\ Cardinality(Steps("body", r)) <= 1
            /\ Cardinality(Decisions(r)) <= 1
            /\ \A i \in Steps("fast", r) : \E j \in Decisions(r) : j < i
            /\ Steps("fast_true", r) # {} =>
                   (Steps("commit", r) # {} /\ Steps("fast_false", r) = {})
            /\ Steps("fast_false", r) # {} =>
                   (Steps("skip", r) # {} /\ Steps("body", r) = {})

\* A rule that two rules depend on was found in the store, rebuilt, and
\* looked up again by the second of them.
C14_Witness ==
    /\ last.op = "run" /\ Acyclic
    /\ \E r \in IdsOf(rules) :
        /\ Steps("hit", r) # {}
        /\ Steps("body", r) # {}
        /\ Steps("fast_true", r) # {}
        /\ Cardinality({c \in IdsOf(rules) : r \in Producers(c)}) >= 2

\* C15: in one run(t), cook is called at most once per target, a source file
\* that several reachable rules read included.
C15_EachTargetCookedOnce ==
    last.op = "run" =>
        \A t \in Targets : Cardinality(Steps("cook", t)) <= 1

\* The rules whose record the last run wrote.
Committed == Logged(last.log, "commit")

\* The run fingerprints of those rules.
CommittedFingerprints ==
    {_compute_run_fingerprint(RuleOf(r), config) : r \in Committed}

\* C16: in one run(t) there is at most one commit per rule, each right after
\* the rule's body returned; a rule whose body was not invoked or raised is
\* not committed; and the store after the run, however it ended, is the
\* store before it with the records of the committed rules written over.
C16_CommitOnlyAfterBody ==
    last.op = "run" =>
        /\ \A r \in IdsOf(rules) :
            /\ Cardinality(Steps("commit", r)) <= 1
            /\ \A i \in Steps("commit", r) :
                   /\ i - 1 \in Steps("body", r)
                   /\ last.bodies[r] # Raises
        /\ DOMAIN db = DOMAIN last.preDb \cup CommittedFingerprints
        /\ \A f \in DOMAIN last.preDb \ CommittedFingerprints :
               db[f] = last.preDb[f]

\* A run ended with RunError after it had replaced the record of a rule
\* whose body returned before the failure.
C16_Witness ==
    /\ last.op = "run" /\ last.outcome = "RunError"
    /\ \E f \in CommittedFingerprints :
           f \in DOMAIN last.preDb /\ db[f] # last.preDb[f]
    /\ \E r \in BodiesInvoked \ Committed :
           _compute_run_fingerprint(RuleOf(r), config) \in DOMAIN last.preDb

\* The rules rule r asked for, in the order it asked.
Calls(r) ==
    LET made == SelectSeq(last.log, LAMBDA e : e[1] = "call" /\ e[3] = r)
    IN  [i \in DOMAIN made |-> made[i][2]]

\* The rules producing the inputs of rule r, in the order of resolved_inputs.
ProducersInOrder(r) ==
    LET owned == SelectSeq(RuleOf(r).resolved_inputs,
                           LAMBDA t : t \in DOMAIN target_to_rule)
    IN  [i \in DOMAIN owned |-> target_to_rule[owned[i]]]

IsPrefix(a, b) == Len(a) <= Len(b) /\ \A i \in DOMAIN a : a[i] = b[i]

\* C17: in run(t) over an acyclic rule graph, when the body of a rule is
\* invoked every rule producing one of its inputs was skipped or was run and
\* committed before, and a rule asks for the rules producing its inputs in the
\* order of its resolved_inputs, all of them before its verdict.
C17_BodiesInDependencyOrder ==
    (last.op = "run" /\ Acyclic) =>
        \A r \in IdsOf(rules) :
            /\ \A i \in Steps("body", r) : \A p \in Producers(r) :
                   \E j \in Steps("skip", p) \cup Steps("commit", p) : j < i
            /\ IsPrefix(Calls(r), ProducersInOrder(r))
            /\ (Steps("skip", r) \cup Steps("body", r) # {}) =>
                   Calls(r) = ProducersInOrder(r)

\* A body was invoked after two rules it depends on, one rebuilt and asked
\* for twice, had reached their verdicts in the order of its inputs.
C17_Witness ==
    /\ last.op = "run" /\ Acyclic
    /\ \E r \in BodiesInvoked :
        /\ Len(Calls(r)) >= 2
        /\ Calls(r)[1] # Calls(r)[2]
        /\ Steps("fast", Calls(r)[1]) # {}
        /\ Steps("commit", Calls(r)[1]) # {}
        /\ Steps("skip", Calls(r)[2]) \cup Steps("commit", Calls(r)[2]) # {}

\* Every input that no rule produces is an on-disk target.
PrerequisitesOnDisk == \A r \in IdsOf(rules) : UnknownInputs(r) = {}

CycleReachable == \E r \in Reached : OnCycle(r)

\* handler.clean failed on a target during the last clean.
CleanFailed ==
    \E t \in last.stuck \cap Logged(last.log, "clean") : last.preDisk[t] # Absent

\* C18 (as stated): when every input without owning rule is on disk, clean(t)
\* ends with ConsistencyError iff a rule cycle is reachable from t's owning
\* rule.
C18_Original ==
    (last.op = "clean" /\ PrerequisitesOnDisk) =>
        (last.outcome = "ConsistencyError" <=> CycleReachable)

\* C18 (amended): the same when no handler.clean fails during the traversal;
\* when one fails, clean(t) ends with RunError, cycle or not.
C18_CleanDetectsCycles ==
    (last.op = "clean" /\ PrerequisitesOnDisk) =>
        IF CleanFailed
        THEN last.outcome = "RunError"
        ELSE last.outcome = "ConsistencyError" <=> CycleReachable

\* The cycle was reported after a rule outside it had been cleaned.
C18_Witness ==
    /\ last.op = "clean" /\ PrerequisitesOnDisk /\ ~CleanFailed
    /\ last.outcome = "ConsistencyError"
    /\ \E r \in Logged(last.log, "enter") : ~OnCycle(r)

\* The fingerprints of the targets rule r records that exist in d.
PresentFingerprints(r, d) ==
    LET kept == {t \in Recorded(r) : compute_fingerprint(d, t) # None}
    IN  [t \in kept |-> compute_fingerprint(d, t)]

\* No record of the store maps a target to an absent fingerprint.
NoAbsentFingerprint ==
    \A f \in DOMAIN db : \A t \in DOMAIN db[f] : db[f][t] # None

\* The records the last run committed hold the present fingerprints of the
\* rule's outputs and of its inputs without owning rule, and nothing else.
RecordsArePresentFingerprints ==
    \A r \in Committed :
        db[_compute_run_fingerprint(RuleOf(r), config)] = PresentFingerprints(r, disk)

\* The record the last run found for rule r lacked one of r's outputs.
OutputOmitted(r) ==
    LET f == _compute_run_fingerprint(RuleOf(r), config)
    IN  /\ f \in DOMAIN last.preDb
        /\ \E t \in Range(RuleOf(r).resolved_outputs) : t \notin DOMAIN last.preDb[f]

\* C19 (as stated): no record maps a target to an absent fingerprint, a
\* committed record holds exactly the present fingerprints of the rule's
\* outputs and un-owned on-disk inputs, and a rule whose record lacks an
\* output has its body invoked by the next run(t) it is reachable from.
C19_Original ==
    /\ NoAbsentFingerprint
    /\ last.op = "run" =>
        /\ RecordsArePresentFingerprints
        /\ \A r \in Reached : OutputOmitted(r) => r \in BodiesInvoked

\* C19 (amended): the same, except that a rule whose record lacks an output
\* is never found up to date by a run(t) it is reachable from, and has its
\* body invoked when that run returns without error.
C19_RecordsHoldPresentFingerprints ==
    /\ NoAbsentFingerprint
    /\ last.op = "run" =>
        /\ RecordsArePresentFingerprints
        /\ \A r \in Reached :
               OutputOmitted(r) =>
                   /\ Steps("skip", r) = {}
                   /\ Returned => r \in BodiesInvoked

\* A rule whose record lacked an output was found in the store, rebuilt, and
\* its new record holds the output; another record still lacks one.
C19_Witness ==
    /\ Returned
    /\ \E r \in Reached :
        /\ OutputOmitted(r)
        /\ Steps("hit", r) # {}
        /\ r \in Committed
        /\ Range(RuleOf(r).resolved_outputs)
               \subseteq DOMAIN db[_compute_run_fingerprint(RuleOf(r), config)]
    /\ \E r \in Committed :
           ~(Recorded(r) \subseteq DOMAIN db[_compute_run_fingerprint(RuleOf(r), config)])

\* C20: whatever its outcome, clean(t) leaves the store as it was: the
\* records of the rules it cleaned are still there.
C20_CleanLeavesStoreUntouched ==
    last.op = "clean" => db = last.preDb

\* clean removed the outputs of a rule whose record is in the store.
C20_Witness ==
    /\ last.op = "clean"
    /\ \E r \in Logged(last.log, "enter") :
        /\ _compute_run_fingerprint(RuleOf(r), config) \in DOMAIN db
        /\ \E t \in Range(RuleOf(r).resolved_outputs) :
               /\ t \in DOMAIN db[_compute_run_fingerprint(RuleOf(r), config)]
               /\ last.preDisk[t] # Absent
               /\ disk[t] = Absent

====
